---- MODULE Spec2Model ----
(***************************************************************************)
(* Model of forms-flow-api/src/formsflow_api/resources/filter.py: the six  *)
(* HTTP handlers of the filter resource.  Every handler is one action.  A  *)
(* request's inputs are the outcomes of the collaborators it calls         *)
(* (auth.has_role, request.get_json / filter_schema.load, FilterService,   *)
(* filter_schema.dump); the handler's own control flow (the role gate and  *)
(* its chain of except clauses) is translated from the source.             *)
(***************************************************************************)
EXTENDS Integers, Sequences, FiniteSets, TLC

VARIABLES filters, req, trace, resp

vars == <<filters, req, trace, resp>>

(* ---------------------------- bounds ----------------------------------- *)
MaxFilters == 1

FilterIds == 1..(MaxFilters + 1)

Names == {"A", "B"}

Tenants == {"t1", "t2"}

(* ------------------------- HTTP status codes --------------------------- *)
HTTP_OK == 200

HTTP_CREATED == 201

HTTP_BAD_REQUEST == 400

HTTP_FORBIDDEN == 403

(* --------------------------- exceptions -------------------------------- *)
NoExc == [type |-> "None", error |-> "", status_code |-> 0]

PermissionError == [type |-> "PermissionError", error |-> "not permitted", status_code |-> 0]

Unclassified == [type |-> "Exception", error |-> "unexpected", status_code |-> 0]

BadRequestJson == [type |-> "Exception", error |-> "malformed json", status_code |-> 0]

ValidationError(msg) == [type |-> "ValidationError", error |-> msg, status_code |-> 0]

BusinessException(e, s) == [type |-> "BusinessException", error |-> e, status_code |-> s]

(* The (error, status_code) pairs a BusinessException is raised with: one  *)
(* status no handler produces itself, and the two it does produce.         *)
BusinessFaults ==
    {BusinessException("Filter not found", 404),
     BusinessException("Invalid request data", 400),
     BusinessException("Permission denied", 403)}

ServiceFaults ==
    {PermissionError, Unclassified, ValidationError("name: Missing data for required field.")}
        \cup BusinessFaults

ServiceOutcomes == {NoExc} \cup ServiceFaults

DumpOutcomes == {NoExc, Unclassified}

HasRoleOutcomes == {"true", "false", "raise"}

(* ------------------------- request bodies ------------------------------ *)
NoBody == [wellformed |-> TRUE, name |-> "", priorityIsInt |-> TRUE]

Bodies ==
    {[wellformed |-> TRUE, name |-> n, priorityIsInt |-> TRUE] : n \in Names}
        \cup {[wellformed |-> TRUE, name |-> "", priorityIsInt |-> TRUE],
              [wellformed |-> TRUE, name |-> "A", priorityIsInt |-> FALSE],
              [wellformed |-> FALSE, name |-> "", priorityIsInt |-> TRUE]}

(* request.get_json() followed by filter_schema.load(): the exception it   *)
(* raises, NoExc when the body is accepted.                                *)
load_exc(body) ==
    IF ~body.wellformed THEN BadRequestJson
    ELSE IF body.name = "" THEN ValidationError("name: Missing data for required field.")
    ELSE IF ~body.priorityIsInt THEN ValidationError("priority: Not a valid integer.")
    ELSE NoExc

load(body) == [name |-> body.name]

(* ------------------------- response bodies ----------------------------- *)
Body(shape, type, message, data) ==
    [shape |-> shape, type |-> type, message |-> message, data |-> data]

NoResponseBody == Body("none", "", "", {})

Digit(d) ==
    CASE d = 0 -> "0" [] d = 1 -> "1" [] d = 2 -> "2" [] d = 3 -> "3" [] d = 4 -> "4"
      [] d = 5 -> "5" [] d = 6 -> "6" [] d = 7 -> "7" [] d = 8 -> "8" [] OTHER -> "9"

RECURSIVE IntToStr(_)
IntToStr(n) == IF n < 10 THEN Digit(n) ELSE IntToStr(n \div 10) \o Digit(n % 10)

(* The fixed bodies the handlers build themselves.                         *)
AuthorizationErrorBody == Body("dict", "Authorization error", "Permission denied", {})

BadRequestBody == Body("dict", "Bad request error", "Invalid request data", {})

PermissionDeniedBody(filter_id) ==
    Body("dict", "Permission Denied",
         "Access to filter id - " \o IntToStr(filter_id) \o " is prohibited.", {})

DeletedBody == Body("str", "", "Deleted", {})

(* err.error of a BusinessException, returned as the body unchanged.       *)
ErrorBody(exc) == Body("error", "", exc.error, {})

(* ----------------------- events of one request ------------------------- *)
Ev(ev, what, exc) == [ev |-> ev, what |-> what, exc |-> exc]

HasRoleEv(hr) == Ev("has_role", hr, IF hr = "raise" THEN Unclassified ELSE NoExc)

LoadEv(exc) == Ev("load", IF exc = NoExc THEN "ok" ELSE "raise", exc)

SvcEv(method, exc) == Ev("svc", method, exc)

DumpEv(exc) == Ev("dump", IF exc = NoExc THEN "ok" ELSE "raise", exc)

LogEv(what, exc) == Ev("log", what, exc)

(* How a handler ends: a (response, status) pair or an exception leaving   *)
(* the handler.                                                            *)
Return(t, body, status, store) ==
    [trace |-> Append(t, Ev("return", "", NoExc)),
     resp |-> [kind |-> "return", body |-> body, status |-> status, exc |-> NoExc],
     filters |-> store]

Raise(t, exc, store) ==
    [trace |-> Append(t, Ev("raise", "", exc)),
     resp |-> [kind |-> "raise", body |-> NoResponseBody, status |-> 0, exc |-> exc],
     filters |-> store]

NoResponse == [kind |-> "none", body |-> NoResponseBody, status |-> 0, exc |-> NoExc]

(* ------------------- FilterService and FilterSchema -------------------- *)
(* The service and the schema live outside this file; their effects on the *)
(* stored filters follow the data model of the specification.              *)
Exists(store, filter_id) == \E f \in store : f.id = filter_id

Lookup(store, filter_id) == CHOOSE f \in store : f.id = filter_id

StatusOf(store, filter_id) ==
    IF Exists(store, filter_id) THEN Lookup(store, filter_id).status ELSE "absent"

NextId(store) == Cardinality(store) + 1

create_filter(store, data, tenant) ==
    store \cup {[id |-> NextId(store), name |-> data.name, status |-> "active", tenant |-> tenant]}

update_filter(store, filter_id, data) ==
    {IF f.id = filter_id THEN [f EXCEPT !.name = data.name] ELSE f : f \in store}

mark_inactive(store, filter_id) ==
    {IF f.id = filter_id THEN [f EXCEPT !.status = "inactive"] ELSE f : f \in store}

get_all_filters(store) == {f \in store : f.status = "active"}

get_user_filters(store, tenant) == {f \in store : f.status = "active" /\ f.tenant = tenant}

dump(f) == Body("filter", "", "", {f})

dump_many(fs) == Body("list", "", "", fs)

(* ----------------- the except clauses of the handlers ------------------ *)
(* Variant: the exception is raised again without the logger.warning call. *)
LogAndReraise_NoLog(t, exc, store) == Raise(t, exc, store)

(* `except Exception`: log, then raise the same exception (lines 108-110,  *)
(* 175-177, 207-209, 254-256, 346-348).                                    *)
LogAndReraise(t, exc, store) == Raise(Append(t, LogEv("exception", exc)), exc, store)

(* FilterResource.get and UsersFilterList.get: a single `except Exception`.*)
list_except(t, exc, store) == LogAndReraise(t, exc, store)

(* Variant: the 400 body carries str(error) as its message.                *)
post_except_EchoesError(t, exc, store) ==
    IF exc.type = "ValidationError"
    THEN Return(Append(t, LogEv("exception", exc)),
                Body("dict", "Bad request error", exc.error, {}), HTTP_BAD_REQUEST, store)
    ELSE Raise(Append(t, LogEv("exception", exc)), exc, store)

(* FilterResource.post: ValidationError -> 400, anything else re-raised.   *)
post_except(t, exc, store) ==
    IF exc.type = "ValidationError"
    THEN Return(Append(t, LogEv("exception", exc)), BadRequestBody, HTTP_BAD_REQUEST, store)
    ELSE LogAndReraise(t, exc, store)

(* Variant: the message is a fixed text, without the filter id.            *)
PermissionErrorResponse_NoId(t, exc, filter_id, store) ==
    Return(Append(t, LogEv("exception", exc)),
           Body("dict", "Permission Denied", "Access to filter is prohibited.", {}),
           HTTP_FORBIDDEN, store)

(* The body built for a PermissionError by the three by-id handlers.       *)
PermissionErrorResponse(t, exc, filter_id, store) ==
    Return(Append(t, LogEv("exception", exc)), PermissionDeniedBody(filter_id), HTTP_FORBIDDEN, store)

(* Variant: the `except PermissionError` clause is missing.                *)
get_except_NoPermissionClause(t, exc, filter_id, store) ==
    IF exc.type = "BusinessException"
    THEN Return(Append(t, LogEv("error", exc)), ErrorBody(exc), exc.status_code, store)
    ELSE Raise(Append(t, LogEv("exception", exc)), exc, store)

(* FilterResourceById.get                                                  *)
get_except(t, exc, filter_id, store) ==
    IF exc.type = "PermissionError" THEN PermissionErrorResponse(t, exc, filter_id, store)
    ELSE IF exc.type = "BusinessException"
    THEN Return(Append(t, LogEv("error", exc)), ErrorBody(exc), exc.status_code, store)
    ELSE LogAndReraise(t, exc, store)

(* Variant: the broad clause comes before `except BusinessException`.      *)
put_except_BroadFirst(t, exc, filter_id, store) ==
    IF exc.type = "PermissionError"
    THEN Return(Append(t, LogEv("exception", exc)), PermissionDeniedBody(filter_id), HTTP_FORBIDDEN, store)
    ELSE Return(Append(Append(t, LogEv("response", NoExc)), LogEv("exception", exc)),
                BadRequestBody, HTTP_BAD_REQUEST, store)

(* Variant: the last clause logs and re-raises, as in get and delete.      *)
put_except_Reraises(t, exc, filter_id, store) ==
    IF exc.type = "PermissionError"
    THEN Return(Append(t, LogEv("exception", exc)), PermissionDeniedBody(filter_id), HTTP_FORBIDDEN, store)
    ELSE IF exc.type = "BusinessException"
    THEN Return(Append(t, LogEv("exception", exc)), ErrorBody(exc), exc.status_code, store)
    ELSE Raise(Append(t, LogEv("exception", exc)), exc, store)

(* FilterResourceById.put: the last clause is `except BaseException`.      *)
put_except(t, exc, filter_id, store) ==
    IF exc.type = "PermissionError" THEN PermissionErrorResponse(t, exc, filter_id, store)
    ELSE IF exc.type = "BusinessException"
    THEN Return(Append(t, LogEv("exception", exc)), ErrorBody(exc), exc.status_code, store)
    ELSE Return(Append(Append(t, LogEv("response", NoExc)), LogEv("exception", exc)),
                BadRequestBody, HTTP_BAD_REQUEST, store)

(* FilterResourceById.delete                                               *)
delete_except(t, exc, filter_id, store) ==
    IF exc.type = "PermissionError" THEN PermissionErrorResponse(t, exc, filter_id, store)
    ELSE IF exc.type = "BusinessException"
    THEN Return(Append(t, LogEv("error", exc)), ErrorBody(exc), exc.status_code, store)
    ELSE LogAndReraise(t, exc, store)

(* Variant: the role gate answers 401 instead of 403.                      *)
PermissionDeniedResponse_Unauthorized(t, store) ==
    Return(t, AuthorizationErrorBody, 401, store)

(* The else branch of every role gate.                                     *)
PermissionDeniedResponse(t, store) ==
    Return(t, AuthorizationErrorBody, HTTP_FORBIDDEN, store)

(* ------------------------- the try blocks ------------------------------ *)
(* hr: what auth.has_role does; so: the exception the service call raises  *)
(* (NoExc: it returns); do: the exception filter_schema.dump raises.       *)
FilterResource_get_body(store, hr, so) ==
    LET t0 == <<HasRoleEv(hr)>>
        t1 == Append(t0, SvcEv("get_all_filters", so))
    IN  IF hr = "raise" THEN list_except(t0, Unclassified, store)
        ELSE IF hr = "false" THEN PermissionDeniedResponse(t0, store)
        ELSE IF so # NoExc THEN list_except(t1, so, store)
        ELSE Return(t1, dump_many(get_all_filters(store)), HTTP_OK, store)

UsersFilterList_get_body(store, tenant, hr, so) ==
    LET t0 == <<HasRoleEv(hr)>>
        t1 == Append(t0, SvcEv("get_user_filters", so))
    IN  IF hr = "raise" THEN list_except(t0, Unclassified, store)
        ELSE IF hr = "false" THEN PermissionDeniedResponse(t0, store)
        ELSE IF so # NoExc THEN list_except(t1, so, store)
        ELSE Return(t1, dump_many(get_user_filters(store, tenant)), HTTP_OK, store)

FilterResource_post_body(store, tenant, body, hr, so) ==
    LET t0 == <<HasRoleEv(hr)>>
        t1 == Append(t0, LoadEv(load_exc(body)))
        t2 == Append(t1, SvcEv("create_filter", so))
        created == create_filter(store, load(body), tenant)
    IN  IF hr = "raise" THEN post_except(t0, Unclassified, store)
        ELSE IF hr = "false" THEN PermissionDeniedResponse(t0, store)
        ELSE IF load_exc(body) # NoExc THEN post_except(t1, load_exc(body), store)
        ELSE IF so # NoExc THEN post_except(t2, so, store)
        ELSE Return(t2, dump(Lookup(created, NextId(store))), HTTP_CREATED, created)

FilterResourceById_get_body(store, filter_id, hr, so, do) ==
    LET t0 == <<HasRoleEv(hr)>>
        t1 == Append(t0, SvcEv("get_filter_by_id", so))
        t2 == Append(t1, DumpEv(do))
    IN  IF hr = "raise" THEN get_except(t0, Unclassified, filter_id, store)
        ELSE IF hr = "false" THEN PermissionDeniedResponse(t0, store)
        ELSE IF so # NoExc THEN get_except(t1, so, filter_id, store)
        ELSE IF do # NoExc THEN get_except(t2, do, filter_id, store)
        ELSE Return(t2, dump(Lookup(store, filter_id)), HTTP_OK, store)

(* Variant: update_filter is called with the raw body before it is loaded. *)
FilterResourceById_put_body_UpdateBeforeLoad(store, filter_id, body, hr, so, do) ==
    LET t0 == <<HasRoleEv(hr)>>
        t1 == Append(t0, SvcEv("update_filter", so))
        t2 == Append(t1, LoadEv(load_exc(body)))
        t3 == Append(t2, DumpEv(do))
        updated == update_filter(store, filter_id, load(body))
    IN  IF hr = "raise" THEN put_except(t0, Unclassified, filter_id, store)
        ELSE IF hr = "false" THEN PermissionDeniedResponse(t0, store)
        ELSE IF so # NoExc THEN put_except(t1, so, filter_id, store)
        ELSE IF load_exc(body) # NoExc THEN put_except(t2, load_exc(body), filter_id, updated)
        ELSE IF do # NoExc THEN put_except(t3, do, filter_id, updated)
        ELSE Return(t3, dump(Lookup(updated, filter_id)), HTTP_OK, updated)

FilterResourceById_put_body(store, filter_id, body, hr, so, do) ==
    LET t0 == <<HasRoleEv(hr)>>
        t1 == Append(t0, LoadEv(load_exc(body)))
        t2 == Append(t1, SvcEv("update_filter", so))
        t3 == Append(t2, DumpEv(do))
        updated == update_filter(store, filter_id, load(body))
    IN  IF hr = "raise" THEN put_except(t0, Unclassified, filter_id, store)
        ELSE IF hr = "false" THEN PermissionDeniedResponse(t0, store)
        ELSE IF load_exc(body) # NoExc THEN put_except(t1, load_exc(body), filter_id, store)
        ELSE IF so # NoExc THEN put_except(t2, so, filter_id, store)
        ELSE IF do # NoExc THEN put_except(t3, do, filter_id, updated)
        ELSE Return(t3, dump(Lookup(updated, filter_id)), HTTP_OK, updated)

(* Variant: the handler removes the record instead of marking it inactive. *)
FilterResourceById_delete_body_HardDelete(store, filter_id, hr, so) ==
    LET t0 == <<HasRoleEv(hr)>>
        t1 == Append(t0, SvcEv("delete", so))
    IN  IF hr = "raise" THEN delete_except(t0, Unclassified, filter_id, store)
        ELSE IF hr = "false" THEN PermissionDeniedResponse(t0, store)
        ELSE IF so # NoExc THEN delete_except(t1, so, filter_id, store)
        ELSE Return(t1, DeletedBody, HTTP_OK, {f \in store : f.id # filter_id})

(* Variant: the handler answers 404 itself when nothing active was marked. *)
FilterResourceById_delete_body_NotFound(store, filter_id, hr, so) ==
    LET t0 == <<HasRoleEv(hr)>>
        t1 == Append(t0, SvcEv("mark_inactive", so))
    IN  IF hr = "raise" THEN delete_except(t0, Unclassified, filter_id, store)
        ELSE IF hr = "false" THEN PermissionDeniedResponse(t0, store)
        ELSE IF so # NoExc THEN delete_except(t1, so, filter_id, store)
        ELSE IF StatusOf(store, filter_id) # "active"
        THEN Return(t1, Body("dict", "Not found", "Filter not found", {}), 404,
                    mark_inactive(store, filter_id))
        ELSE Return(t1, DeletedBody, HTTP_OK, mark_inactive(store, filter_id))

FilterResourceById_delete_body(store, filter_id, hr, so) ==
    LET t0 == <<HasRoleEv(hr)>>
        t1 == Append(t0, SvcEv("mark_inactive", so))
    IN  IF hr = "raise" THEN delete_except(t0, Unclassified, filter_id, store)
        ELSE IF hr = "false" THEN PermissionDeniedResponse(t0, store)
        ELSE IF so # NoExc THEN delete_except(t1, so, filter_id, store)
        ELSE Return(t1, DeletedBody, HTTP_OK, mark_inactive(store, filter_id))

(* --------------------------- the actions ------------------------------- *)
NoTenant == "-"

Request(handler, filter_id, body, tenant, role) ==
    [handler |-> handler, filter_id |-> filter_id, body |-> body, tenant |-> tenant,
     role |-> role, pre |-> StatusOf(filters, filter_id)]

Finish(r, out) ==
    /\ req' = r
    /\ trace' = out.trace
    /\ resp' = out.resp
    /\ filters' = out.filters

Init ==
    /\ filters = {}
    /\ req = [handler |-> "none", filter_id |-> 0, body |-> NoBody, tenant |-> NoTenant,
              role |-> "none", pre |-> "absent"]
    /\ trace = <<>>
    /\ resp = NoResponse

(* A service call that returns a filter can only do so for a stored one.   *)
CanReturn(filter_id, so) == so = NoExc => Exists(filters, filter_id)

(* With the role check failing or raising, the later outcomes are never    *)
(* consumed: they are fixed to NoExc so that equal requests are one state. *)
Consumed(hr, so) == hr # "true" => so = NoExc

FilterResource_get ==
    \E hr \in HasRoleOutcomes, so \in ServiceOutcomes :
        /\ Consumed(hr, so)
        /\ Finish(Request("GET /filter", 0, NoBody, NoTenant, hr),
                  FilterResource_get_body(filters, hr, so))

FilterResource_post ==
    \E hr \in HasRoleOutcomes, so \in ServiceOutcomes, body \in Bodies, tenant \in Tenants :
        /\ Consumed(hr, so)
        /\ load_exc(body) # NoExc => so = NoExc
        /\ (hr = "true" /\ load_exc(body) = NoExc /\ so = NoExc) => Cardinality(filters) < MaxFilters
        /\ Finish(Request("POST /filter", 0, body, tenant, hr),
                  FilterResource_post_body(filters, tenant, body, hr, so))

UsersFilterList_get ==
    \E hr \in HasRoleOutcomes, so \in ServiceOutcomes, tenant \in Tenants :
        /\ Consumed(hr, so)
        /\ Finish(Request("GET /filter/user", 0, NoBody, tenant, hr),
                  UsersFilterList_get_body(filters, tenant, hr, so))

FilterResourceById_get ==
    \E hr \in HasRoleOutcomes, so \in ServiceOutcomes, do \in DumpOutcomes, filter_id \in FilterIds :
        /\ Consumed(hr, so) /\ Consumed(hr, do)
        /\ so # NoExc => do = NoExc
        /\ hr = "true" => CanReturn(filter_id, so)
        /\ Finish(Request("GET /filter/{id}", filter_id, NoBody, NoTenant, hr),
                  FilterResourceById_get_body(filters, filter_id, hr, so, do))

FilterResourceById_put ==
    \E hr \in HasRoleOutcomes, so \in ServiceOutcomes, do \in DumpOutcomes,
       filter_id \in FilterIds, body \in Bodies :
        /\ Consumed(hr, so) /\ Consumed(hr, do)
        /\ load_exc(body) # NoExc => (so = NoExc /\ do = NoExc)
        /\ so # NoExc => do = NoExc
        /\ (hr = "true" /\ load_exc(body) = NoExc) => CanReturn(filter_id, so)
        /\ Finish(Request("PUT /filter/{id}", filter_id, body, NoTenant, hr),
                  FilterResourceById_put_body(filters, filter_id, body, hr, so, do))

FilterResourceById_delete ==
    \E hr \in HasRoleOutcomes, so \in ServiceOutcomes, filter_id \in FilterIds :
        /\ Consumed(hr, so)
        /\ Finish(Request("DELETE /filter/{id}", filter_id, NoBody, NoTenant, hr),
                  FilterResourceById_delete_body(filters, filter_id, hr, so))

Next ==
    \/ FilterResource_get
    \/ FilterResource_post
    \/ UsersFilterList_get
    \/ FilterResourceById_get
    \/ FilterResourceById_put
    \/ FilterResourceById_delete

Spec == Init /\ [][Next]_vars

(* ===================== properties of the handlers ====================== *)
Handlers ==
    {"GET /filter", "POST /filter", "GET /filter/user",
     "GET /filter/{id}", "PUT /filter/{id}", "DELETE /filter/{id}"}

ByIdHandlers == {"GET /filter/{id}", "PUT /filter/{id}", "DELETE /filter/{id}"}

Handled == req.handler \in Handlers

CallEvents == {"has_role", "load", "svc", "dump"}

Events(ev) == {i \in DOMAIN trace : trace[i].ev = ev}

RaisedAt == {i \in DOMAIN trace : trace[i].ev \in CallEvents /\ trace[i].exc # NoExc}

(* The exception raised inside the try block of the last request, if any.  *)
Raised == IF RaisedAt = {} THEN NoExc ELSE trace[CHOOSE i \in RaisedAt : TRUE].exc

ServiceRaised(type) == \E i \in Events("svc") : trace[i].exc.type = type

Returned(body, status) ==
    resp = [kind |-> "return", body |-> body, status |-> status, exc |-> NoExc]

Logged(exc) == \E i \in Events("log") : trace[i].exc = exc

(* C1: on each of the six handlers, for every body and filter id, a request*)
(* whose auth.has_role([REVIEWER_GROUP]) returned false is answered 403    *)
(* with {"type": "Authorization error", "message": "Permission denied"}.   *)
C1_NoRoleIsForbidden ==
    (Handled /\ req.role = "false") =>
        Returned([shape |-> "dict", type |-> "Authorization error",
                  message |-> "Permission denied", data |-> {}], 403)

C1_Witness ==
    /\ req.handler = "PUT /filter/{id}" /\ req.role = "false"
    /\ req.body.name = "B" /\ req.pre = "active"
    /\ resp.status = 403

(* C2: POST /filter by a reviewer whose body fails filter_schema.load with *)
(* a ValidationError is answered 400 with the fixed body {"type": "Bad     *)
(* request error", "message": "Invalid request data"}: the same for every  *)
(* validation error, carrying none of its text, which is only logged.      *)
C2_PostValidationIsGeneric400 ==
    (req.handler = "POST /filter" /\ req.role = "true"
        /\ load_exc(req.body).type = "ValidationError") =>
        /\ Returned([shape |-> "dict", type |-> "Bad request error",
                     message |-> "Invalid request data", data |-> {}], 400)
        /\ resp.body.message # load_exc(req.body).error
        /\ resp.body.type # load_exc(req.body).error
        /\ Logged(load_exc(req.body))

C2_Witness ==
    /\ req.handler = "POST /filter" /\ req.role = "true"
    /\ load_exc(req.body) = ValidationError("priority: Not a valid integer.")
    /\ resp.status = 400

(* C3: on GET, PUT and DELETE /filter/{id}, a PermissionError raised by the*)
(* service call is answered 403 with type "Permission Denied" and a message*)
(* that carries the filter_id of this request; it is not re-raised.        *)
C3_PermissionErrorIs403WithId ==
    (req.handler \in ByIdHandlers /\ ServiceRaised("PermissionError")) =>
        /\ resp.kind = "return"
        /\ resp.status = 403
        /\ resp.body.type = "Permission Denied"
        /\ resp.body.message =
               "Access to filter id - " \o IntToStr(req.filter_id) \o " is prohibited."
        /\ \A other \in FilterIds \ {req.filter_id} :
               resp.body.message # "Access to filter id - " \o IntToStr(other) \o " is prohibited."

C3_Witness ==
    /\ req.handler = "DELETE /filter/{id}" /\ ServiceRaised("PermissionError")
    /\ req.filter_id = 1 /\ req.pre = "active"
    /\ resp.body.message = "Access to filter id - 1 is prohibited."

(* C4: on GET, PUT and DELETE /filter/{id}, a BusinessException raised by  *)
(* the service with error e and status code s is answered exactly (e, s):  *)
(* not a generic 400/403, and not re-raised.                               *)
C4_BusinessExceptionPassedThrough ==
    \A i \in Events("svc") :
        (req.handler \in ByIdHandlers /\ trace[i].exc.type = "BusinessException") =>
            Returned([shape |-> "error", type |-> "", message |-> trace[i].exc.error,
                      data |-> {}], trace[i].exc.status_code)

C4_Witness ==
    /\ req.handler = "PUT /filter/{id}" /\ ServiceRaised("BusinessException")
    /\ resp.status = 404 /\ resp.body.message = "Filter not found"

(* C5: PUT /filter/{id} never re-raises: an exception from the role check, *)
(* the schema load, the service update or the schema dump that is neither  *)
(* PermissionError nor BusinessException (ValidationError included) is     *)
(* answered 400 with the generic body; a PUT always ends in a response     *)
(* whose status is 200, 403, 400 or the status of a BusinessException.     *)
C5_PutNeverReraises ==
    req.handler = "PUT /filter/{id}" =>
        /\ resp.kind = "return"
        /\ \/ resp.status \in {200, 403, 400}
           \/ Raised.type = "BusinessException" /\ resp.status = Raised.status_code
        /\ (Raised # NoExc /\ Raised.type \notin {"PermissionError", "BusinessException"}) =>
               Returned([shape |-> "dict", type |-> "Bad request error",
                         message |-> "Invalid request data", data |-> {}], 400)

C5_Witness ==
    /\ req.handler = "PUT /filter/{id}" /\ req.role = "true"
    /\ \E i \in Events("dump") : trace[i].exc = Unclassified
    /\ resp.status = 400

(* The fault kinds the handlers name: the missing reviewer role and the    *)
(* three exception classes some except clause mentions.                    *)
KnownFaultTypes == {"PermissionError", "BusinessException", "ValidationError"}

KnownFault == req.role = "false" \/ Raised.type \in KnownFaultTypes

(* The exception classes each handler has an except clause for.            *)
CaughtTypes(handler) ==
    CASE handler = "POST /filter" -> {"ValidationError"}
      [] handler = "GET /filter/{id}" -> {"PermissionError", "BusinessException"}
      [] handler = "DELETE /filter/{id}" -> {"PermissionError", "BusinessException"}
      [] handler = "PUT /filter/{id}" -> KnownFaultTypes \cup {"Exception"}
      [] OTHER -> {}

(* C6, as stated: on every endpoint, the collection handlers included, a   *)
(* known fault (missing reviewer role, PermissionError, BusinessException, *)
(* ValidationError) ends in an HTTP response and is never re-raised.       *)
C6_KnownFaultsNeverReraised ==
    (Handled /\ KnownFault) => resp.kind = "return"

(* C6, amended: the missing role is answered 403 on every handler; a       *)
(* PermissionError or BusinessException is translated to a response by the *)
(* three by-id handlers only, a ValidationError by POST and PUT only; on   *)
(* every other handler the known exception is logged and re-raised.        *)
C6_KnownFaultsHandledWhereCaught ==
    (Handled /\ KnownFault) =>
        /\ req.role = "false" => (resp.kind = "return" /\ resp.status = 403)
        /\ Raised.type \in KnownFaultTypes =>
             IF Raised.type \in CaughtTypes(req.handler)
             THEN resp.kind = "return" /\ resp.status \in {400, 403, Raised.status_code}
             ELSE resp.kind = "raise" /\ resp.exc = Raised /\ Logged(Raised)

C6_Witness ==
    /\ req.handler = "GET /filter/{id}" /\ req.role = "true"
    /\ Raised = PermissionError
    /\ resp.kind = "return" /\ resp.status = 403

C6_WitnessReraised ==
    /\ req.handler = "POST /filter" /\ Raised.type = "BusinessException"
    /\ resp.kind = "raise"

(* C7: on every handler but PUT, an exception the handler has no specific  *)
(* except clause for is logged and then the same exception is re-raised:   *)
(* no (response, status) pair is returned, and the logger.warning call     *)
(* comes before the raise.                                                 *)
C7_UnknownLoggedThenReraised ==
    (Handled /\ req.handler # "PUT /filter/{id}"
        /\ Raised # NoExc /\ Raised.type \notin CaughtTypes(req.handler)) =>
        /\ resp.kind = "raise" /\ resp.exc = Raised
        /\ Events("return") = {}
        /\ Events("raise") = {Len(trace)}
        /\ trace[Len(trace)].exc = Raised
        /\ \E i \in Events("log") : trace[i].exc = Raised /\ i < Len(trace)
        /\ \A i \in Events("log") : \A j \in Events("raise") : i < j

C7_Witness ==
    /\ req.handler = "DELETE /filter/{id}" /\ req.role = "true"
    /\ Raised = Unclassified /\ Events("svc") # {}
    /\ resp.kind = "raise" /\ Logged(Unclassified)

(* C8: across any request, every stored filter keeps its id and its tenant,*)
(* its status never goes from inactive back to active, and the record stays*)
(* in storage (DELETE marks it inactive, PUT leaves id, tenant and an      *)
(* inactive status alone); ids stay unique.                                *)
C8_Step ==
    /\ \A f \in filters : \E g \in filters' :
          /\ g.id = f.id
          /\ g.tenant = f.tenant
          /\ f.status = "inactive" => g.status = "inactive"
    /\ \A g, h \in filters' : g.id = h.id => g = h
    /\ \A g \in filters' : g.status \in {"active", "inactive"}

C8_WitnessDelete ==
    /\ req.handler = "DELETE /filter/{id}" /\ req.pre = "active"
    /\ resp.status = 200
    /\ \E f \in filters : f.id = req.filter_id /\ f.status = "inactive"

C10_Step ==
    Handled' =>
        /\ trace'[1].ev = "has_role"
        /\ Cardinality(Events("svc")') <= 1
        /\ \A i \in Events("svc")' :
              /\ trace'[1].what = "true"
              /\ \A j \in Events("has_role")' : j < i
              /\ req'.handler \in {"POST /filter", "PUT /filter/{id}"} =>
                    \E j \in Events("load")' : j < i /\ trace'[j].exc = NoExc
        /\ (req'.role = "false" \/ (\E j \in Events("load")' : trace'[j].exc.type = "ValidationError")) =>
              /\ Events("svc")' = {}
              /\ filters' = filters
        /\ (Events("svc")' = {} => filters' = filters)

C10_RoleCheckGatesService == [][C10_Step]_vars

C10_Witness ==
    /\ req.handler = "PUT /filter/{id}" /\ req.role = "true" /\ req.pre = "active"
    /\ \E j \in Events("load") : trace[j].exc.type = "ValidationError"
    /\ Events("svc") = {}
    /\ resp.status = 400

====
